---- MODULE Spec2Model ----
(***************************************************************************)
(* The legal-document application: a six-step graph (planner, writer,      *)
(* aggregator, wait_for_query, thinker, answer) built in graph.py, the     *)
(* step functions of nodes.py, the state schema of state.py and the        *)
(* driver run_legal_app of main.py, run by a superstep executor with       *)
(* fan-out, merge by field policy, checkpointing and suspend/resume.       *)
(***************************************************************************)
EXTENDS Integers, Sequences, FiniteSets, TLC

(* ------------------------------ bounds --------------------------------- *)
\* longest outline the planner's language model returns
MaxSections == 2
\* how many times the process is killed and started again
MaxRestarts == 1

\* section titles the planner may produce, and the questions the user may type
Titles == {"Definitions", "Liability"}
Queries == {"q1", "q2"}

(* ---------------------------- optional values -------------------------- *)
\* Python's None / a missing key is the empty tuple, a present value v is <<v>>
None == <<>>
Some(v) == <<v>>

\* the empty dict a step returns when it updates nothing
NoUpdate == [f \in {} |-> 0]

(* ------------------------------ state.py ------------------------------- *)
Fields ==
  {"contract_topic", "file_path", "sections_to_write", "completed_sections",
   "generated_sections", "qa_query", "thought_process", "final_answer"}

\* the fields declared with Annotated[..., operator.add]
AccumulateFields == {"completed_sections", "generated_sections"}

\* a state in which no field has been written yet
EmptyValues ==
  [contract_topic |-> None, file_path |-> None, sections_to_write |-> <<>>,
   completed_sections |-> 0, generated_sections |-> <<>>,
   qa_query |-> None, thought_process |-> None, final_answer |-> None]

\* a schema that forgot the reducers: every field is overwritten
DocumentState_no_reducer(f, old, new) == new

\* the merge policy of each field: operator.add on the two annotated fields
\* (integer sum, list concatenation), overwrite on every other field
DocumentState(f, old, new) ==
  CASE f = "completed_sections" -> old + new
    [] f = "generated_sections" -> old \o new
    [] OTHER -> new

\* one partial update merged into a state, field by field
Merge(st, upd) ==
  [f \in Fields |-> IF f \in DOMAIN upd THEN DocumentState(f, st[f], upd[f]) ELSE st[f]]

(* ------------------------------- llm.py -------------------------------- *)
\* a model's reply is a function of the model and the prompt it was given
pro_llm(prompt) == <<"gemini-3-pro-preview", prompt>>
flash_llm(prompt) == <<"gemini-3-flash-preview", prompt>>

\* the outlines the planner's structured output may contain
Outlines == UNION {[1..n -> Titles] : n \in 0..MaxSections}

(* ------------------------------ graph.py ------------------------------- *)
START == "__start__"
END == "__end__"

\* builder.add_node, in the order of the calls
Nodes == <<"planner", "writer", "aggregator", "wait_for_query", "thinker", "answer">>
NodeSet == {Nodes[i] : i \in 1..Len(Nodes)}

\* a flow in which the aggregator hangs off the planner instead of the writers
builder_edges_from_planner ==
  {<<START, "planner">>, <<"planner", "aggregator">>,
   <<"aggregator", "wait_for_query">>, <<"wait_for_query", "thinker">>,
   <<"thinker", "answer">>, <<"answer", END>>}

\* a flow in which the answer step comes before the thinker
builder_edges_answer_first ==
  {<<START, "planner">>, <<"writer", "aggregator">>,
   <<"aggregator", "wait_for_query">>, <<"wait_for_query", "answer">>,
   <<"answer", "thinker">>, <<"thinker", END>>}

\* a flow that ends after the thinker
builder_edges_no_answer ==
  {<<START, "planner">>, <<"writer", "aggregator">>,
   <<"aggregator", "wait_for_query">>, <<"wait_for_query", "thinker">>,
   <<"thinker", END>>}

\* a flow in which the document is assembled only after the user was asked
builder_edges_aggregate_late ==
  {<<START, "planner">>, <<"writer", "wait_for_query">>,
   <<"wait_for_query", "aggregator">>, <<"aggregator", "thinker">>,
   <<"thinker", "answer">>, <<"answer", END>>}

\* builder.add_edge: the static edges
builder_edges ==
  {<<START, "planner">>, <<"writer", "aggregator">>,
   <<"aggregator", "wait_for_query">>, <<"wait_for_query", "thinker">>,
   <<"thinker", "answer">>, <<"answer", END>>}

\* builder.add_conditional_edges: the steps whose successors a dispatch function picks
ConditionalSources == {"planner"}

\* a dispatch that numbers the sections from the end
assign_workers_reversed(state) ==
  [i \in 1..Len(state.sections_to_write) |->
     [node |-> "writer",
      arg |-> [section_topic |-> state.sections_to_write[i],
               index |-> Len(state.sections_to_write) - i]]]

\* a dispatch that drops the last section
assign_workers_short(state) ==
  [i \in 1..(Len(state.sections_to_write) - 1) |->
     [node |-> "writer",
      arg |-> [section_topic |-> state.sections_to_write[i], index |-> i - 1]]]

\* a dispatch that sends one untitled section when the outline is empty
assign_workers_placeholder(state) ==
  IF state.sections_to_write = <<>>
  THEN <<[node |-> "writer", arg |-> [section_topic |-> "Untitled", index |-> 0]]>>
  ELSE [i \in 1..Len(state.sections_to_write) |->
          [node |-> "writer",
           arg |-> [section_topic |-> state.sections_to_write[i], index |-> i - 1]]]

\* Send("writer", {"section_topic": s, "index": i}) for i, s in enumerate(...)
assign_workers(state) ==
  [i \in 1..Len(state.sections_to_write) |->
     [node |-> "writer",
      arg |-> [section_topic |-> state.sections_to_write[i], index |-> i - 1]]]

(* ------------------------------ nodes.py ------------------------------- *)
\* planner_node's return value for an outline
planner_node(state, outline) == [sections_to_write |-> outline]

\* a writer that forgets to count its section
writer_node_uncounted(state) ==
  [generated_sections |->
     <<[title |-> state.section_topic,
        content |-> flash_llm(<<"write", state.section_topic>>),
        index |-> state.index]>>]

\* writer_node's return value: one SectionResult and a count of one
writer_node(state) ==
  [generated_sections |->
     <<[title |-> state.section_topic,
        content |-> flash_llm(<<"write", state.section_topic>>),
        index |-> state.index]>>,
   completed_sections |-> 1]

\* sorted(xs, key=lambda x: x["index"]): a stable insertion sort
RECURSIVE InsertByIndex(_, _)
InsertByIndex(x, sorted) ==
  IF sorted = <<>> THEN <<x>>
  ELSE IF x.index < Head(sorted).index THEN <<x>> \o sorted
  ELSE <<Head(sorted)>> \o InsertByIndex(x, Tail(sorted))

\* an aggregator that forgot to sort
sorted_by_index_unsorted(xs) == xs

RECURSIVE sorted_by_index(_)
sorted_by_index(xs) ==
  IF xs = <<>> THEN <<>>
  ELSE InsertByIndex(xs[Len(xs)], sorted_by_index(SubSeq(xs, 1, Len(xs) - 1)))

\* what aggregator_node writes to file_path: the topic line, then every section
aggregator_document(state) ==
  LET sorted_sections == sorted_by_index(state.generated_sections)
  IN [topic |-> state.contract_topic,
      sections |-> [i \in 1..Len(sorted_sections) |->
                      [title |-> sorted_sections[i].title,
                       content |-> sorted_sections[i].content]]]

\* aggregator_node's return value
aggregator_node(state) == NoUpdate

\* a wait step that never asks: it stores whatever it has and goes on
wait_for_query_node_no_interrupt(state, resume) ==
  [interrupted |-> FALSE, update |-> [qa_query |-> resume]]

\* a wait step that loses the answer it was resumed with
wait_for_query_node_drops_value(state, resume) ==
  IF resume = None
  THEN [interrupted |-> TRUE, update |-> NoUpdate]
  ELSE [interrupted |-> FALSE, update |-> [qa_query |-> None]]

\* wait_for_query_node: interrupt(...) pauses when no resume value is there,
\* and returns the resume value when the step is entered again
wait_for_query_node(state, resume) ==
  IF resume = None
  THEN [interrupted |-> TRUE, update |-> NoUpdate]
  ELSE [interrupted |-> FALSE, update |-> [qa_query |-> resume]]

\* thinker_node's return value, from the document read from disk and the query
thinker_node(state, doc_text) ==
  [thought_process |-> Some(pro_llm(<<"think", doc_text, state.qa_query>>))]

\* an answer step that also bumps the section counter
answer_node_counts(state) ==
  [final_answer |-> Some(flash_llm(<<"answer", state.thought_process, state.qa_query>>)),
   completed_sections |-> 1]

\* answer_node's return value
answer_node(state) ==
  [final_answer |-> Some(flash_llm(<<"answer", state.thought_process, state.qa_query>>))]

(* ------------------------------- main.py ------------------------------- *)
initial_state ==
  [contract_topic |-> Some("Enterprise SaaS Master Service Agreement"),
   file_path |-> Some("./output/legal_document.md"),
   completed_sections |-> 0,
   generated_sections |-> <<>>,
   sections_to_write |-> <<>>]

(* --------------------------- program state ----------------------------- *)
VARIABLES
  memory,      \* MemorySaver: the checkpoint kept for thread_id, in process memory
  values,      \* the executor's shared state during a call
  tasks,       \* the tasks of the superstep in progress
  engine,      \* "idle", "running" or "returned" (a call has ended, result is set)
  resumeVal,   \* the value of Command(resume=...) for the call in progress
  result,      \* what the last call to graph.invoke ended with
  file,        \* the document at file_path on disk
  pc,          \* where run_legal_app stands
  outcome,     \* how run_legal_app ended
  restarts,    \* process restarts so far
  executed,    \* history: how often each step was entered in this process
  finishOrder, \* history: the writer indices in the order the writers finished
  dispatched,  \* history: how many writer tasks the conditional edge dispatched
  outline,     \* history: the outline the planner's language model returned
  fileWrites,  \* history: how often file_path was written in this run of the driver
  reruns,      \* how often run_legal_app was called again in this process
  preStep,     \* history: the checkpoint when the superstep in progress started
  suspCkpt,    \* history: the checkpoint written at the suspension
  lastSaved    \* history: the last checkpoint saved, in this process or an earlier one

vars ==
  <<memory, values, tasks, engine, resumeVal, result, file, pc, outcome, restarts,
    executed, finishOrder, dispatched, outline, fileWrites, reruns, preStep, suspCkpt,
    lastSaved>>

\* the persisted record when nothing was saved for the run id
NoCheckpoint ==
  [exists |-> FALSE, values |-> EmptyValues, next |-> {}, step |-> 0, suspended |-> {}]

NoResult == [kind |-> "none", step |-> "", values |-> EmptyValues]
NoOutcome == [kind |-> "none", step |-> ""]

(* --------------------------- the executor ------------------------------ *)
\* a task of a superstep: a plain step reads the shared state, a dispatched
\* task reads only the payload of its descriptor
PlainTask(n) == [node |-> n, arg |-> None, status |-> "pending", writes |-> NoUpdate]
SendTask(d) == [node |-> d.node, arg |-> Some(d.arg), status |-> "pending", writes |-> NoUpdate]

Predecessors(t) == {e[1] : e \in {x \in builder_edges : x[2] = t}}

\* the static steps made ready by the steps that just ran
ReadySteps(ran) == {t \in NodeSet : Predecessors(t) # {} /\ Predecessors(t) \subseteq ran}

\* the descriptors the conditional edges of the steps that just ran dispatch
Dispatch(ran, st) == IF ran \cap ConditionalSources # {} THEN assign_workers(st) ELSE <<>>

\* the next superstep: the dispatched tasks, then the ready static steps
PrepareNext(ran, st) ==
  LET sends == Dispatch(ran, st)
  IN [i \in 1..Len(sends) |-> SendTask(sends[i])]
       \o [i \in 1..Len(SelectSeq(Nodes, LAMBDA n : n \in ReadySteps(ran))) |->
             PlainTask(SelectSeq(Nodes, LAMBDA n : n \in ReadySteps(ran))[i])]

TaskNodes(ts) == {ts[i].node : i \in 1..Len(ts)}

\* the updates of a superstep merged in task order
RECURSIVE ApplyWrites(_, _)
ApplyWrites(st, ts) ==
  IF ts = <<>> THEN st ELSE ApplyWrites(Merge(st, Head(ts).writes), Tail(ts))

\* two tasks of one superstep write the same overwrite field
Conflict(ts) ==
  \E i, j \in 1..Len(ts) :
    /\ i < j
    /\ \E f \in (DOMAIN ts[i].writes) \cap (DOMAIN ts[j].writes) : f \notin AccumulateFields

\* Runnable.get_state: the state and the pending steps of the run id
get_state == [values |-> memory.values, next |-> memory.next]

\* Runnable.invoke(input, run_id): the input is merged into the run's state and
\* the start step's successors become the first superstep
EngineInvoke(input) ==
  LET st == Merge(memory.values, input)
  IN /\ values' = st
     /\ tasks' = PrepareNext({START}, st)
     /\ engine' = "running"
     /\ resumeVal' = None
     /\ result' = NoResult
     /\ preStep' = memory
     /\ UNCHANGED <<memory, suspCkpt, lastSaved>>

\* Runnable.resume(run_id, value): the paused step is entered again
EngineResume(v) ==
  IF memory.suspended = {}
  THEN /\ engine' = "returned"
       /\ result' = [kind |-> "error", step |-> "ResumeWithoutSuspensionError",
                     values |-> EmptyValues]
       /\ UNCHANGED <<values, tasks, resumeVal, memory, preStep, suspCkpt, lastSaved>>
  ELSE /\ values' = memory.values
       /\ tasks' = [i \in 1..Len(SelectSeq(Nodes, LAMBDA n : n \in memory.suspended)) |->
                      PlainTask(SelectSeq(Nodes, LAMBDA n : n \in memory.suspended)[i])]
       /\ engine' = "running"
       /\ resumeVal' = Some(v)
       /\ result' = NoResult
       /\ preStep' = memory
       /\ UNCHANGED <<memory, suspCkpt, lastSaved>>

Pending(i, n) ==
  /\ engine = "running"
  /\ i \in 1..Len(tasks)
  /\ tasks[i].node = n
  /\ tasks[i].status = "pending"

Done(i, upd) == [tasks EXCEPT ![i].status = "done", ![i].writes = upd]
Entered(n) == [executed EXCEPT ![n] = @ + 1]

UnchangedByTask ==
  UNCHANGED <<memory, values, engine, resumeVal, result, pc, outcome, restarts,
              dispatched, reruns, preStep, suspCkpt, lastSaved>>

\* what a step other than the planner leaves alone besides
UnchangedByStep == UNCHANGED <<file, finishOrder, outline, fileWrites>>

(* ------------------------------ the steps ------------------------------ *)
run_planner(i) ==
  /\ Pending(i, "planner")
  /\ \E sections \in Outlines :
       /\ tasks' = Done(i, planner_node(values, sections))
       /\ outline' = sections
  /\ executed' = Entered("planner")
  /\ UNCHANGED <<file, finishOrder, fileWrites>>
  /\ UnchangedByTask

run_writer(i) ==
  /\ Pending(i, "writer")
  /\ tasks' = Done(i, writer_node(tasks[i].arg[1]))
  /\ executed' = Entered("writer")
  /\ finishOrder' = Append(finishOrder, tasks[i].arg[1].index)
  /\ UNCHANGED <<file, outline, fileWrites>>
  /\ UnchangedByTask

run_aggregator(i) ==
  /\ Pending(i, "aggregator")
  /\ file' = Some(aggregator_document(values))
  /\ fileWrites' = fileWrites + 1
  /\ tasks' = Done(i, aggregator_node(values))
  /\ executed' = Entered("aggregator")
  /\ UNCHANGED <<finishOrder, outline>>
  /\ UnchangedByTask

run_wait_for_query(i) ==
  /\ Pending(i, "wait_for_query")
  /\ LET r == wait_for_query_node(values, resumeVal)
     IN tasks' = IF r.interrupted
                 THEN [tasks EXCEPT ![i].status = "interrupted"]
                 ELSE Done(i, r.update)
  /\ executed' = Entered("wait_for_query")
  /\ UnchangedByStep
  /\ UnchangedByTask

\* open(file_path, "r") raises when the document is not on disk
run_thinker(i) ==
  /\ Pending(i, "thinker")
  /\ tasks' = IF file = None
              THEN [tasks EXCEPT ![i].status = "failed"]
              ELSE Done(i, thinker_node(values, file[1]))
  /\ executed' = Entered("thinker")
  /\ UnchangedByStep
  /\ UnchangedByTask

run_answer(i) ==
  /\ Pending(i, "answer")
  /\ tasks' = Done(i, answer_node(values))
  /\ executed' = Entered("answer")
  /\ UnchangedByStep
  /\ UnchangedByTask

\* the steps that call a language model or the file system, and so may raise
FallibleSteps == {"planner", "writer", "aggregator", "thinker", "answer"}

step_raises(i) ==
  /\ \E n \in FallibleSteps : Pending(i, n)
  /\ tasks' = [tasks EXCEPT ![i].status = "failed"]
  /\ executed' = Entered(tasks[i].node)
  /\ UnchangedByStep
  /\ UnchangedByTask

(* ----------------------- the executor's supersteps --------------------- *)
UnchangedBySuperstep ==
  UNCHANGED <<resumeVal, file, pc, outcome, restarts, executed, finishOrder, outline,
              fileWrites, reruns>>

AllDone == \A i \in 1..Len(tasks) : tasks[i].status = "done"
FailedTasks == {i \in 1..Len(tasks) : tasks[i].status = "failed"}
InterruptedTasks == {i \in 1..Len(tasks) : tasks[i].status = "interrupted"}

\* the checkpoint written after a merge: the merged state and the steps now pending
Checkpoint(st, next) ==
  [exists |-> TRUE, values |-> st, next |-> TaskNodes(next),
   step |-> memory.step + 1, suspended |-> {}]

\* barrier, merge, checkpoint, next ready-set: every task of the superstep is
\* done; two writers of one overwrite field abort the superstep instead
SuperstepCommit ==
  /\ engine = "running"
  /\ tasks # <<>>
  /\ AllDone
  /\ IF Conflict(tasks)
     THEN /\ engine' = "returned"
          /\ result' = [kind |-> "error", step |-> "ConflictingWriteError",
                        values |-> EmptyValues]
          /\ tasks' = <<>>
          /\ UNCHANGED <<memory, values, dispatched, preStep, suspCkpt, lastSaved>>
     ELSE LET st == ApplyWrites(values, tasks)
              next == PrepareNext(TaskNodes(tasks), st)
              ckpt == Checkpoint(st, next)
          IN /\ values' = st
             /\ memory' = ckpt
             /\ lastSaved' = ckpt
             /\ preStep' = ckpt
             /\ tasks' = next
             /\ dispatched' = IF TaskNodes(tasks) \cap ConditionalSources # {}
                              THEN Len(Dispatch(TaskNodes(tasks), st))
                              ELSE dispatched
             /\ IF next = <<>>
                THEN /\ engine' = "returned"
                     /\ result' = [kind |-> "final", step |-> "", values |-> st]
                ELSE UNCHANGED <<engine, result>>
             /\ UNCHANGED suspCkpt
  /\ UnchangedBySuperstep

\* a task raised: the superstep is abandoned, nothing is merged or saved, and
\* the call ends with the error of the failed step
SuperstepAbort ==
  /\ engine = "running"
  /\ FailedTasks # {}
  /\ \E i \in FailedTasks :
       result' = [kind |-> "error", step |-> tasks[i].node, values |-> EmptyValues]
  /\ engine' = "returned"
  /\ tasks' = <<>>
  /\ UNCHANGED <<memory, values, dispatched, preStep, suspCkpt, lastSaved>>
  /\ UnchangedBySuperstep

\* a task asked to pause: the state as of before the call stays saved, the
\* paused step is recorded as awaiting a resume, and the call ends
SuperstepSuspend ==
  /\ engine = "running"
  /\ InterruptedTasks # {}
  /\ FailedTasks = {}
  /\ \A i \in 1..Len(tasks) : tasks[i].status # "pending"
  /\ LET ckpt == [memory EXCEPT !.suspended = {tasks[i].node : i \in InterruptedTasks}]
     IN /\ memory' = ckpt
        /\ lastSaved' = ckpt
        /\ suspCkpt' = ckpt
  /\ engine' = "returned"
  /\ result' = [kind |-> "suspended", step |-> "", values |-> values]
  /\ tasks' = <<>>
  /\ UNCHANGED <<values, dispatched, preStep>>
  /\ UnchangedBySuperstep

(* --------------------------- run_legal_app ----------------------------- *)
\* a guard that resumes whenever anything is pending
resume_guard_any_pending(next) == next # {}

\* if state.next and "wait_for_query" in state.next
resume_guard(next) == next # {} /\ "wait_for_query" \in next

\* state = graph.get_state(config); a run with pending steps is left alone,
\* otherwise graph.invoke(initial_state, config) starts
driver_start ==
  /\ pc = "start"
  /\ IF get_state.next # {}
     THEN /\ pc' = "refetch"
          /\ UNCHANGED <<memory, values, tasks, engine, resumeVal, result, preStep,
                         suspCkpt, lastSaved>>
     ELSE /\ pc' = "invoke"
          /\ EngineInvoke(initial_state)
  /\ UNCHANGED <<file, outcome, restarts, executed, finishOrder, dispatched, outline,
                 fileWrites, reruns>>

\* graph.invoke returned or raised: "except Exception: pass" drops the error
invoke_returns ==
  /\ pc = "invoke"
  /\ engine = "returned"
  /\ pc' = "refetch"
  /\ engine' = "idle"
  /\ UNCHANGED <<memory, values, tasks, resumeVal, result, file, outcome, restarts,
                 executed, finishOrder, dispatched, outline, fileWrites, reruns, preStep,
                 suspCkpt, lastSaved>>

\* the state is fetched again: a run pending at wait_for_query asks the user,
\* any other run prints its pending steps and the function returns
driver_refetch ==
  /\ pc = "refetch"
  /\ IF resume_guard(get_state.next)
     THEN pc' = "input" /\ UNCHANGED outcome
     ELSE pc' = "done" /\ outcome' = [kind |-> "unexpected_state", step |-> ""]
  /\ UNCHANGED <<memory, values, tasks, engine, resumeVal, result, file, restarts,
                 executed, finishOrder, dispatched, outline, fileWrites, reruns, preStep,
                 suspCkpt, lastSaved>>

\* user_query = input(...); graph.invoke(Command(resume=user_query), config)
driver_resume ==
  /\ pc = "input"
  /\ \E user_query \in Queries : EngineResume(user_query)
  /\ pc' = "resume"
  /\ UNCHANGED <<file, outcome, restarts, executed, finishOrder, dispatched, outline,
                 fileWrites, reruns>>

\* the resumed call ended: its final state is printed, or its error leaves
\* run_legal_app as an exception
resume_returns ==
  /\ pc = "resume"
  /\ engine = "returned"
  /\ pc' = "done"
  /\ engine' = "idle"
  /\ outcome' = IF result.kind = "error"
                THEN [kind |-> "exception", step |-> result.step]
                ELSE [kind |-> "answered", step |-> ""]
  /\ UNCHANGED <<memory, values, tasks, resumeVal, result, file, restarts,
                 executed, finishOrder, dispatched, outline, fileWrites, reruns, preStep,
                 suspCkpt, lastSaved>>

\* the process ends and a new one starts: memory = MemorySaver() is built
\* again, empty, when graph.py is imported; the file on disk stays
process_restart ==
  /\ restarts < MaxRestarts
  /\ restarts' = restarts + 1
  /\ memory' = NoCheckpoint
  /\ values' = EmptyValues
  /\ tasks' = <<>>
  /\ engine' = "idle"
  /\ resumeVal' = None
  /\ result' = NoResult
  /\ pc' = "start"
  /\ outcome' = NoOutcome
  /\ executed' = [n \in NodeSet |-> 0]
  /\ finishOrder' = <<>>
  /\ dispatched' = 0
  /\ outline' = <<>>
  /\ fileWrites' = 0
  /\ reruns' = 0
  /\ preStep' = NoCheckpoint
  /\ suspCkpt' = NoCheckpoint
  /\ UNCHANGED <<file, lastSaved>>

(* --------------------------- specification ----------------------------- *)
Init ==
  /\ memory = NoCheckpoint
  /\ values = EmptyValues
  /\ tasks = <<>>
  /\ engine = "idle"
  /\ resumeVal = None
  /\ result = NoResult
  /\ file = None
  /\ pc = "start"
  /\ outcome = NoOutcome
  /\ restarts = 0
  /\ executed = [n \in NodeSet |-> 0]
  /\ finishOrder = <<>>
  /\ dispatched = 0
  /\ outline = <<>>
  /\ fileWrites = 0
  /\ reruns = 0
  /\ preStep = NoCheckpoint
  /\ suspCkpt = NoCheckpoint
  /\ lastSaved = NoCheckpoint

Next ==
  \/ driver_start
  \/ invoke_returns
  \/ driver_refetch
  \/ driver_resume
  \/ resume_returns
  \/ process_restart
  \/ SuperstepCommit
  \/ SuperstepAbort
  \/ SuperstepSuspend
  \/ \E i \in 1..Len(tasks) : run_planner(i)
  \/ \E i \in 1..Len(tasks) : run_writer(i)
  \/ \E i \in 1..Len(tasks) : run_aggregator(i)
  \/ \E i \in 1..Len(tasks) : run_wait_for_query(i)
  \/ \E i \in 1..Len(tasks) : run_thinker(i)
  \/ \E i \in 1..Len(tasks) : run_answer(i)
  \/ \E i \in 1..Len(tasks) : step_raises(i)

Spec == Init /\ [][Next]_vars

(* ------------------------------ properties ----------------------------- *)
WriterSuperstep == "writer" \in TaskNodes(tasks)
Indices(gs) == {gs[k].index : k \in 1..Len(gs)}

\* C1 - superstep atomicity: once a call has ended with the error of a failed
\* writer task, the saved checkpoint is the one taken before the writer
\* superstep started, neither the saved nor the shared state holds a result
\* of a sibling writer, and the aggregator has not run.
C1_SuperstepAtomicity ==
  (result.kind = "error" /\ result.step = "writer") =>
    /\ memory = preStep
    /\ memory.next = {"writer"}
    /\ memory.values.generated_sections = <<>>
    /\ memory.values.completed_sections = 0
    /\ values.generated_sections = <<>>
    /\ values.completed_sections = 0
    /\ executed["aggregator"] = 0

\* a writer superstep of two tasks failed after a sibling writer had finished
C1_Witness ==
  /\ result.kind = "error"
  /\ result.step = "writer"
  /\ dispatched = 2
  /\ Len(finishOrder) = 1

\* C2 - fan-in ordering: the generated_sections of the shared state and of the
\* saved checkpoint are in index order 0, 1, ..., whatever the order in which
\* the writer tasks finished.
SortedFromZero(gs) == \A k \in 1..Len(gs) : gs[k].index = k - 1

C2_FanInOrdering ==
  /\ SortedFromZero(values.generated_sections)
  /\ SortedFromZero(memory.values.generated_sections)
  /\ (executed["aggregator"] > 0 => Len(values.generated_sections) = dispatched)

\* the writer with index 1 finished before the writer with index 0, and the
\* two results were merged
C2_Witness ==
  /\ finishOrder = <<1, 0>>
  /\ Len(values.generated_sections) = 2
  /\ Len(memory.values.generated_sections) = 2

\* C3 - barrier: while the aggregator is a task of the superstep in progress
\* no writer task is, every dispatched writer has run, and the state the
\* aggregator reads holds the result of each of the dispatched writers.
C3_Barrier ==
  ("aggregator" \in TaskNodes(tasks) \/ executed["aggregator"] > 0) =>
    /\ ~WriterSuperstep
    /\ executed["writer"] = dispatched
    /\ Len(values.generated_sections) = dispatched
    /\ Indices(values.generated_sections) = 0..(dispatched - 1)

\* the aggregator has run after two writers were dispatched
C3_Witness ==
  /\ executed["aggregator"] = 1
  /\ dispatched = 2
  /\ finishOrder = <<1, 0>>

\* C4 - suspension point: from the moment wait_for_query is entered until a
\* resume is issued, the saved checkpoint has wait_for_query pending and no
\* qa_query, thinker and answer have not run, and once the call has ended it
\* has ended as suspended, with wait_for_query recorded as the paused step.
C4_SuspensionPoint ==
  (executed["wait_for_query"] > 0 /\ resumeVal = None) =>
    /\ memory.next = {"wait_for_query"}
    /\ memory.values.qa_query = None
    /\ values.qa_query = None
    /\ executed["thinker"] = 0
    /\ executed["answer"] = 0
    /\ (engine # "running" =>
          /\ result.kind = "suspended"
          /\ memory.suspended = {"wait_for_query"}
          /\ tasks = <<>>)

\* the call has returned to run_legal_app, suspended, and no resume was issued
C4_Witness ==
  /\ pc = "input"
  /\ result.kind = "suspended"
  /\ memory.suspended = {"wait_for_query"}
  /\ dispatched = 2

\* C5 - suspend/resume round trip: the final state of a resumed run has the
\* resume value as qa_query and equals the state a single pass over the six
\* steps computes from the same outline with the suspend call returning
\* that value.
SinglePassSections(secs) ==
  [k \in 1..Len(secs) |->
     [title |-> secs[k], content |-> flash_llm(<<"write", secs[k]>>), index |-> k - 1]]

SinglePassDocument(secs) ==
  [topic |-> initial_state.contract_topic,
   sections |-> [k \in 1..Len(secs) |->
                   [title |-> secs[k], content |-> flash_llm(<<"write", secs[k]>>)]]]

SinglePassThought(secs, v) == Some(pro_llm(<<"think", SinglePassDocument(secs), Some(v)>>))

SinglePass(secs, v) ==
  [contract_topic |-> initial_state.contract_topic,
   file_path |-> initial_state.file_path,
   sections_to_write |-> secs,
   completed_sections |-> Len(secs),
   generated_sections |-> SinglePassSections(secs),
   qa_query |-> Some(v),
   thought_process |-> SinglePassThought(secs, v),
   final_answer |-> Some(flash_llm(<<"answer", SinglePassThought(secs, v), Some(v)>>))]

C5_RoundTrip ==
  /\ (resumeVal # None /\ executed["thinker"] > 0) => values.qa_query = resumeVal
  /\ (resumeVal # None /\ result.kind = "final") =>
       /\ result.values.qa_query = resumeVal
       /\ result.values = SinglePass(outline, resumeVal[1])
       /\ memory.values = result.values

\* a run of two sections was resumed with q2 and has ended
C5_Witness ==
  /\ outcome.kind = "answered"
  /\ resumeVal = Some("q2")
  /\ Len(outline) = 2
  /\ result.kind = "final"

\* C6 - restart durability: whatever process loads the run id, get_state
\* returns the state and the pending steps of the last checkpoint that was
\* saved or suspended.
C6_RestartDurability ==
  lastSaved.exists =>
    /\ get_state.values = lastSaved.values
    /\ get_state.next = lastSaved.next

\* C7 - checkpoint/merge invariant: the shared state and the saved checkpoint
\* hold the results of none of the dispatched writer tasks or of all of them
\* (each index once, and as many counted as generated), and of none while the
\* writer superstep is in progress.
NoneOrAll(st) ==
  \/ /\ st.generated_sections = <<>>
     /\ st.completed_sections = 0
  \/ /\ Len(st.generated_sections) = dispatched
     /\ Indices(st.generated_sections) = 0..(dispatched - 1)
     /\ st.completed_sections = dispatched

C7_NoneOrAll ==
  /\ NoneOrAll(values)
  /\ NoneOrAll(memory.values)
  /\ WriterSuperstep =>
       /\ values.generated_sections = <<>>
       /\ memory.values.generated_sections = <<>>

\* one writer task has finished, its sibling has not, and nothing is merged
C7_Witness ==
  /\ WriterSuperstep
  /\ Len(tasks) = 2
  /\ tasks[2].status = "done"
  /\ tasks[1].status = "pending"
  /\ values.generated_sections = <<>>

\* C8 - resume frame: from the resume on, generated_sections,
\* completed_sections, sections_to_write, contract_topic and file_path are, in
\* the shared state, the checkpoint and the final state, what they were in the
\* suspension checkpoint; the final state has the three answers set.
FrameFields ==
  {"generated_sections", "completed_sections", "sections_to_write",
   "contract_topic", "file_path"}

SameFrame(st) == \A f \in FrameFields : st[f] = suspCkpt.values[f]

C8_ResumeFrame ==
  resumeVal # None =>
    /\ suspCkpt.suspended = {"wait_for_query"}
    /\ SameFrame(values)
    /\ SameFrame(memory.values)
    /\ result.kind = "final" =>
         /\ SameFrame(result.values)
         /\ result.values.qa_query # None
         /\ result.values.thought_process # None
         /\ result.values.final_answer # None

\* a resumed run of two sections has ended
C8_Witness ==
  /\ resumeVal # None
  /\ result.kind = "final"
  /\ Len(suspCkpt.values.generated_sections) = 2
  /\ pc = "done"

\* C9 - failure propagation: a run of run_legal_app in which a step failed
\* ends with an error that names the step.
C9_FailurePropagation ==
  (pc = "done" /\ result.kind = "error") =>
    /\ outcome.kind = "exception"
    /\ outcome.step = result.step

StageOrder == <<"planner", "writer", "aggregator", "wait_for_query", "thinker", "answer">>
StageOf(n) == CHOOSE k \in 1..Len(StageOrder) : StageOrder[k] = n

C12_StageOrdering ==
  /\ \A i \in 1..Len(tasks) : memory.step = StageOf(tasks[i].node) - 1
  /\ \A n \in NodeSet : executed[n] > 0 => memory.step >= StageOf(n) - 1
  /\ \A k \in 2..Len(StageOrder) :
       executed[StageOrder[k]] > 0 => executed[StageOrder[k - 1]] > 0
  /\ \A n \in {"planner", "aggregator", "thinker", "answer"} : executed[n] <= 1
  /\ executed["writer"] <= dispatched

\* a run of two sections went through all six stages
C12_Witness ==
  /\ executed["answer"] = 1
  /\ executed["writer"] = 2
  /\ memory.step = Len(StageOrder)
  /\ result.kind = "final"

\* C13 - empty fan-out: once the planner's superstep has committed an empty
\* sections_to_write, nothing is pending and the call has ended as final: no
\* writer, aggregator or wait_for_query is ever entered, the run is not
\* suspended, and run_legal_app neither asks the user nor resumes.
EmptyOutlineCommitted == memory.exists /\ memory.values.sections_to_write = <<>>

C13_EmptyFanOut ==
  EmptyOutlineCommitted =>
    /\ dispatched = 0
    /\ tasks = <<>>
    /\ memory.next = {}
    /\ memory.suspended = {}
    /\ result.kind = "final"
    /\ executed["writer"] = 0
    /\ executed["aggregator"] = 0
    /\ executed["wait_for_query"] = 0
    /\ resumeVal = None
    /\ pc \in {"invoke", "refetch", "done"}
    /\ (pc = "done" => outcome.kind = "unexpected_state")
    /\ fileWrites = 0

\* run_legal_app has returned after a run whose outline was empty
C13_Witness ==
  /\ EmptyOutlineCommitted
  /\ executed["planner"] = 1
  /\ pc = "done"
  /\ outcome.kind = "unexpected_state"

\* C14 - dispatch function: the writer superstep has exactly one task per
\* entry of sections_to_write, the i-th a writer task whose payload is that
\* entry with index i - 1 (so the indices are 0..N-1, each once), and what a
\* finished writer returns is made of its own payload alone.
OwnPayload(i) ==
  [section_topic |-> values.sections_to_write[i], index |-> i - 1]

C14_Dispatch ==
  /\ memory.exists => dispatched = Len(memory.values.sections_to_write)
  /\ WriterSuperstep =>
       /\ Len(tasks) = Len(values.sections_to_write)
       /\ \A i \in 1..Len(tasks) :
            /\ tasks[i].node = "writer"
            /\ tasks[i].arg = Some(OwnPayload(i))
            /\ tasks[i].status = "done" =>
                 /\ Len(tasks[i].writes.generated_sections) = 1
                 /\ tasks[i].writes.generated_sections[1].title = OwnPayload(i).section_topic
                 /\ tasks[i].writes.generated_sections[1].index = OwnPayload(i).index
       /\ {tasks[i].arg[1].index : i \in 1..Len(tasks)} = 0..(Len(tasks) - 1)

\* two writers were dispatched for two different titles and both have finished
C14_Witness ==
  /\ WriterSuperstep
  /\ Len(tasks) = 2
  /\ values.sections_to_write[1] # values.sections_to_write[2]
  /\ tasks[1].status = "done"
  /\ tasks[2].status = "done"

(* ------------------- a run in which no step fails or hangs ------------- *)
\* one step of the executor: a task runs, or a superstep commits or suspends
EngineStep ==
  \/ SuperstepCommit
  \/ SuperstepSuspend
  \/ \E i \in 1..Len(tasks) : run_planner(i)
  \/ \E i \in 1..Len(tasks) : run_writer(i)
  \/ \E i \in 1..Len(tasks) : run_aggregator(i)
  \/ \E i \in 1..Len(tasks) : run_wait_for_query(i)
  \/ \E i \in 1..Len(tasks) : run_thinker(i)
  \/ \E i \in 1..Len(tasks) : run_answer(i)

NextLive ==
  \/ driver_start
  \/ invoke_returns
  \/ driver_refetch
  \/ driver_resume
  \/ resume_returns
  \/ EngineStep

\* graph.invoke is a synchronous call: while it has a task to run or a
\* superstep to close it goes on, and once it has ended control is back in
\* run_legal_app
SpecLive ==
  /\ Init
  /\ [][NextLive]_vars
  /\ WF_vars(EngineStep)
  /\ WF_vars(invoke_returns)
  /\ WF_vars(resume_returns)

\* C15 - termination after resume: once the resume is issued, run_legal_app
\* eventually has the final state of a run with nothing pending and with
\* qa_query, thought_process and final_answer set, and the resumed call never
\* ends suspended.
ResumedRunEnded ==
  /\ pc = "done"
  /\ outcome.kind = "answered"
  /\ result.kind = "final"
  /\ memory.next = {}
  /\ memory.suspended = {}
  /\ result.values.qa_query # None
  /\ result.values.thought_process # None
  /\ result.values.final_answer # None
  /\ memory.values = result.values

C15_TerminationAfterResume ==
  /\ (pc = "resume") ~> ResumedRunEnded
  /\ [](resumeVal # None => (result.kind # "suspended" /\ executed["wait_for_query"] <= 2))

\* a resumed run of two sections has reached the end of the graph
C15_Witness ==
  /\ ResumedRunEnded
  /\ dispatched = 2
  /\ resumeVal = Some("q2")

\* C16 - no repeated side effects on resume: wait_for_query updates nothing and
\* writes nothing before it suspends; the document is written exactly once per
\* run, by the aggregator in the superstep before the suspension, and the
\* resumed call never writes it again.
C16_WrittenOnce ==
  /\ fileWrites <= 1
  /\ fileWrites <= executed["aggregator"]
  /\ \A i \in 1..Len(tasks) :
       tasks[i].status = "interrupted" =>
         /\ tasks[i].node = "wait_for_query"
         /\ tasks[i].writes = NoUpdate
         /\ values = memory.values
  /\ executed["wait_for_query"] > 0 =>
       /\ fileWrites = 1
       /\ executed["aggregator"] = 1
       /\ file = Some(aggregator_document(memory.values))
  /\ suspCkpt.exists =>
       /\ suspCkpt.step = StageOf("aggregator")
       /\ fileWrites = 1

C16_NoRepeatedSideEffects ==
  /\ []C16_WrittenOnce
  /\ [][(resumeVal # None \/ \E i \in 1..Len(tasks) : tasks[i].node = "wait_for_query")
          => file' = file]_vars

\* wait_for_query was entered twice (suspension and re-entry) and the run ended
C16_Witness ==
  /\ executed["wait_for_query"] = 2
  /\ fileWrites = 1
  /\ outcome.kind = "answered"
  /\ file = Some(SinglePassDocument(outline))

\* C18 - counter invariant: in every checkpoint saved by a run started from the
\* driver's initial state, completed_sections is the length of
\* generated_sections, and once the writer superstep has committed both are the
\* length of sections_to_write.
CounterInvariant(ckpt) ==
  ckpt.exists =>
    /\ ckpt.values.completed_sections = Len(ckpt.values.generated_sections)
    /\ ckpt.step >= StageOf("writer") =>
         ckpt.values.completed_sections = Len(ckpt.values.sections_to_write)
    /\ ckpt.step < StageOf("writer") => ckpt.values.completed_sections = 0

C18_CounterInvariant ==
  /\ CounterInvariant(memory)
  /\ CounterInvariant(lastSaved)
  /\ CounterInvariant(suspCkpt)

\* the checkpoint of the committed writer superstep of a two-section run
C18_Witness ==
  /\ memory.exists
  /\ memory.step = StageOf("writer")
  /\ memory.values.completed_sections = 2
  /\ Len(memory.values.generated_sections) = 2
  /\ memory.next = {"aggregator"}

(* --------------- run_legal_app called again in the same process -------- *)
MaxReruns == 1

\* run_legal_app() has returned and is called again: thread_id is the same
\* constant and the module-level MemorySaver still holds the checkpoint
driver_rerun ==
  /\ pc = "done"
  /\ reruns < MaxReruns
  /\ reruns' = reruns + 1
  /\ pc' = "start"
  /\ outcome' = NoOutcome
  /\ resumeVal' = None
  /\ result' = NoResult
  /\ engine' = "idle"
  /\ executed' = [n \in NodeSet |-> 0]
  /\ finishOrder' = <<>>
  /\ dispatched' = 0
  /\ fileWrites' = 0
  /\ preStep' = NoCheckpoint
  /\ suspCkpt' = NoCheckpoint
  /\ UNCHANGED <<memory, values, tasks, file, restarts, outline, lastSaved>>

NextRerun ==
  \/ Next
  \/ driver_rerun

SpecRerun == Init /\ [][NextRerun]_vars

\* C19 - re-invocation: after any sequence of driver runs on the same run id,
\* generated_sections holds at most one result per section index and
\* completed_sections does not exceed the length of sections_to_write.
C19_Reinvocation ==
  memory.exists =>
    /\ \A i, j \in 1..Len(memory.values.generated_sections) :
         i # j => memory.values.generated_sections[i].index #
                  memory.values.generated_sections[j].index
    /\ memory.values.completed_sections <= Len(memory.values.sections_to_write)

(* ------- the aggregator on every order of the writers' results --------- *)
MaxShuffled == 3

\* the orders in which n results can stand in generated_sections
ResultOrders(n) == {f \in [1..n -> 1..n] : \A i, j \in 1..n : i # j => f[i] # f[j]}

\* the state the aggregator reads: the writers' results of outline secs, the
\* result of section f[k] standing at place k
ShuffledState(secs, f) ==
  [initial_state EXCEPT
     !.sections_to_write = secs,
     !.completed_sections = Len(secs),
     !.generated_sections = [k \in 1..Len(secs) |->
                               writer_node([section_topic |-> secs[f[k]],
                                            index |-> f[k] - 1]).generated_sections[1]]]

\* the writer superstep of some outline has committed, its results in some
\* order, and the aggregator is about to run
InitAggregate ==
  \E secs \in UNION {[1..n -> Titles] : n \in 0..MaxShuffled} :
    \E f \in ResultOrders(Len(secs)) :
      /\ values = ShuffledState(secs, f)
      /\ memory = [exists |-> TRUE, values |-> ShuffledState(secs, f),
                   next |-> {"aggregator"}, step |-> 2, suspended |-> {}]
      /\ tasks = <<PlainTask("aggregator")>>
      /\ engine = "running"
      /\ resumeVal = None
      /\ result = NoResult
      /\ file = None
      /\ pc = "invoke"
      /\ outcome = NoOutcome
      /\ restarts = 0
      /\ executed = [n \in NodeSet |-> IF n = "planner" THEN 1
                                       ELSE IF n = "writer" THEN Len(secs) ELSE 0]
      /\ finishOrder = [k \in 1..Len(secs) |-> f[k] - 1]
      /\ dispatched = Len(secs)
      /\ outline = secs
      /\ fileWrites = 0
      /\ reruns = 0
      /\ preStep = NoCheckpoint
      /\ suspCkpt = NoCheckpoint
      /\ lastSaved = memory

NextAggregate == \E i \in 1..Len(tasks) : run_aggregator(i)

SpecAggregate == InitAggregate /\ [][NextAggregate]_vars

\* C17 - document order: whatever the order of the writers' results in
\* generated_sections, the aggregator's sorted list has the indices 0..N-1 in
\* strictly increasing order, each once, and the document written is the one of
\* the outline in its own order.
C17_DocumentOrder ==
  /\ SortedFromZero(sorted_by_index(values.generated_sections))
  /\ Len(sorted_by_index(values.generated_sections)) = Len(outline)
  /\ executed["aggregator"] = 1 =>
       /\ file = Some(SinglePassDocument(outline))
       /\ Len(file[1].sections) = Len(outline)
       /\ \A k \in 1..Len(outline) : file[1].sections[k].title = outline[k]

\* the aggregator has written the document of three results that stood in
\* the order 2, 0, 1, with different titles at the first two places
C17_Witness ==
  /\ executed["aggregator"] = 1
  /\ finishOrder = <<2, 0, 1>>
  /\ outline[1] # outline[2]
  /\ file # None

====
